---- MODULE Spec2Model ----
(***************************************************************************)
(* Model of the image manifest subsystem of wilfred:                       *)
(*   wilfred/api/images.py  class Images (lazy, exception raising)         *)
(*   wilfred/images.py      class Images (eager, self healing, exits)      *)
(*   wilfred/wilfred.py     the commands of the command line               *)
(* The disk is the per-user config directory: images/default (replaced by  *)
(* download), images/user (user supplied manifests), img.zip and           *)
(* temp_images.  A file's content is a text; json_loads gives its value.   *)
(***************************************************************************)
EXTENDS Integers, Sequences, FiniteSets, TLC

VARIABLES
    defaultDir,  \* <config_dir>/images/default : [exists, files]
    userDir,     \* <config_dir>/images/user, user supplied manifests
    tempDir,     \* <config_dir>/temp_images (its images-master/images files)
    zipFile,     \* TRUE iff <config_dir>/img.zip exists
    images,      \* self.images of wilfred.api.images.Images
    last,        \* the last call on the object and how it ended
    loaded,      \* history: some read_images call has returned True
    lastLoad,    \* history: how the latest read_images call ended
    eimages,     \* self.images of wilfred.images.Images
    ctor,        \* wilfred.images.Images.__init__: position and history
    elast,       \* the last call on the constructed wilfred.images.Images
    configFile,  \* TRUE iff <config_dir>/config.json exists
    configuration,  \* config.configuration of wilfred.py: "none" or "set"
    cli          \* the command of this process, its Servers calls, its end

vars == <<defaultDir, userDir, tempDir, zipFile, images, last, loaded, lastLoad,
          eimages, ctor, elast, configFile, configuration, cli>>

api == <<images, last, loaded, lastLoad>>

eager == <<eimages, ctor, elast>>

disk == <<defaultDir, userDir, tempDir, zipFile>>

shell == <<configFile, configuration, cli>>

\* ------------------------------------------------------------------ bounds
\* number of manifest files the `default` subtree / a bundle may hold
MaxFiles == 2

\* number of config.files entries, of environment mappings in each and of
\* variables a document may hold
MaxEntries == 2

\* ------------------------------------------------------- program constants
\* API_VERSION of wilfred/api/images.py
API_VERSION == 2

\* API_VERSION of wilfred/images.py
EAGER_API_VERSION == 0

\* -------------------------------------------------------------- utilities
Range(s) == {s[i] : i \in DOMAIN s}

Perms(S) == {p \in [1..Cardinality(S) -> S] : Range(p) = S}

Without(m, k) == [x \in (DOMAIN m) \ {k} |-> m[x]]

With(m, k, v) == [x \in (DOMAIN m) \cup {k} |-> IF x = k THEN v ELSE m[x]]

\* ------------------------------------------------------------ uid strings
\* a uid is a sequence of characters; str.lower() maps character by character
LowerChar(c) == CASE c = "A" -> "a" [] c = "B" -> "b" [] OTHER -> c

LowerUnchanged(s) == s

Lower(s) == [i \in DOMAIN s |-> LowerChar(s[i])]

UpperChars == {"A", "B"}

HasUpper(s) == \E i \in DOMAIN s : s[i] \in UpperChars

\* --------------------------------------------------------- manifest values
\* a well-formed document with n config files, n environment mappings in
\* each and n variables
EnvMapping == [config_variable |-> "cv", environment_variable |-> "ev",
               value_format |-> "vf"]

FileNameOf(i) ==
    CASE i = 1 -> "f1.properties"
      [] i = 2 -> "f2.yml"
      [] OTHER -> "f3.cfg"

ConfigFile(i, n) == [filename |-> FileNameOf(i), parser |-> "properties",
                     environment |-> [x \in 1..n |-> EnvMapping],
                     action |-> "none"]

Variable == [prompt |-> "p", variable |-> "V", install_only |-> FALSE,
             default |-> "d", hidden |-> FALSE]

Manifest(uid, ver, n) ==
    [meta |-> [api_version |-> ver], uid |-> uid, name |-> "n",
     author |-> "au", docker_image |-> "img", command |-> "cmd",
     user |-> "usr", stop_command |-> "stop", default_image |-> TRUE,
     variables |-> [i \in 1..n |-> Variable],
     installation |-> [docker_image |-> "i", shell |-> "sh", script |-> "s"],
     config |-> [files |-> [i \in 1..n |-> ConfigFile(i, n)]]]

\* ---------------------------------------------------- the structural contract
TopKeys == <<"meta", "uid", "name", "author", "docker_image", "command",
             "user", "stop_command", "default_image", "variables",
             "installation", "config">>

MetaKeys == <<"api_version">>

InstallKeys == <<"docker_image", "shell", "script">>

FileKeys == <<"filename", "parser", "environment", "action">>

EnvKeys == <<"config_variable", "environment_variable", "value_format">>

VarKeys == <<"prompt", "variable", "install_only", "default", "hidden">>

\* index of the first key of keys that rec lacks, 0 when it has them all
FirstMissing(rec, keys) ==
    IF \A i \in DOMAIN keys : keys[i] \in DOMAIN rec THEN 0
    ELSE CHOOSE i \in DOMAIN keys :
            /\ keys[i] \notin DOMAIN rec
            /\ \A j \in 1..(i - 1) : keys[j] \in DOMAIN rec

\* index of the first TRUE of a sequence of flags, 0 when there is none
FirstBad(bad) ==
    IF \A i \in DOMAIN bad : ~bad[i] THEN 0
    ELSE CHOOSE i \in DOMAIN bad :
            /\ bad[i]
            /\ \A j \in 1..(i - 1) : ~bad[j]

Ok == [kind |-> "ok", msg |-> <<>>]

Raise(kind, msg) == [kind |-> kind, msg |-> msg]

\* _exception(key) of _verify
MissingKey(file, key) ==
    Raise("ParseError", <<"image", file, "is missing key", key>>)

\* lines 216-227: the environment mappings of an entry that lack a key
EnvBad(env) == [x \in DOMAIN env |-> FirstMissing(env[x], EnvKeys) # 0]

\* lines 209-227: one config.files entry
VerifyConfigFileNoEnv(f, file) ==
    IF FirstMissing(f, FileKeys) # 0
    THEN MissingKey(file, FileKeys[FirstMissing(f, FileKeys)])
    ELSE Ok

\* the message of a defective environment mapping without the entry's filename
VerifyConfigFileKeyOnly(f, file) ==
    IF FirstMissing(f, FileKeys) # 0
    THEN MissingKey(file, FileKeys[FirstMissing(f, FileKeys)])
    ELSE IF FirstBad(EnvBad(f.environment)) # 0
    THEN LET e == f.environment[FirstBad(EnvBad(f.environment))]
         IN  MissingKey(file, EnvKeys[FirstMissing(e, EnvKeys)])
    ELSE Ok

VerifyConfigFile(f, file) ==
    IF FirstMissing(f, FileKeys) # 0
    THEN MissingKey(file, FileKeys[FirstMissing(f, FileKeys)])
    ELSE IF FirstBad(EnvBad(f.environment)) # 0
    THEN LET e == f.environment[FirstBad(EnvBad(f.environment))]
         IN  Raise("ParseError",
                   <<"image", file, "is missing key", f.filename,
                     "environment key", EnvKeys[FirstMissing(e, EnvKeys)]>>)
    ELSE Ok

\* lines 232-237: the variables entries that lack a key
VarBad(vs) == [i \in DOMAIN vs |-> FirstMissing(vs[i], VarKeys) # 0]

\* Images._verify of wilfred/api/images.py
Verify(image, file) ==
    IF FirstMissing(image, TopKeys) # 0
    THEN MissingKey(file, TopKeys[FirstMissing(image, TopKeys)])
    ELSE IF image.uid # Lower(image.uid)
    THEN Raise("ParseError", <<"image", file, "uid must be lowercase">>)
    ELSE IF FirstMissing(image.meta, MetaKeys) # 0
    THEN MissingKey(file, MetaKeys[FirstMissing(image.meta, MetaKeys)])
    ELSE IF FirstMissing(image.installation, InstallKeys) # 0
    THEN MissingKey(file,
            InstallKeys[FirstMissing(image.installation, InstallKeys)])
    ELSE IF "files" \notin DOMAIN image.config
    \* line 205 reports the loop variable left over from line 196
    THEN MissingKey(file, InstallKeys[Len(InstallKeys)])
    ELSE LET files == image.config.files
             fileBad == [i \in DOMAIN files |->
                            VerifyConfigFile(files[i], file).kind # "ok"]
         IN  IF FirstBad(fileBad) # 0
             THEN VerifyConfigFile(files[FirstBad(fileBad)], file)
             ELSE IF FirstBad(VarBad(image.variables)) # 0
             THEN LET v == image.variables[FirstBad(VarBad(image.variables))]
                  IN  MissingKey(file, VarKeys[FirstMissing(v, VarKeys)])
             ELSE Ok

\* ------------------------------------------------------------ file contents
\* The text of a file describes the JSON document it holds: the document is
\* Manifest(uid, ver, n) with the key named by drop left out (in entry i of
\* config.files or variables, and mapping x of that entry's environment);
\* json = FALSE is a file that is not JSON at all.
NoDrop == <<"none", "">>

TextAt(uid, ver, n, drop, i, x) ==
    [json |-> TRUE, uid |-> uid, ver |-> ver, n |-> n, drop |-> drop,
     i |-> i, x |-> x]

Text(uid, ver, drop) == TextAt(uid, ver, 1, drop, 1, 1)

Garbage ==
    [json |-> FALSE, uid |-> <<>>, ver |-> 0, n |-> 0, drop |-> NoDrop,
     i |-> 0, x |-> 0]

\* the document m without the key drop names
Drop(m, drop, i, x) ==
    LET g == drop[1]
        k == drop[2]
    IN  CASE g = "none" -> m
          [] g = "top" -> Without(m, k)
          [] g = "meta" -> With(m, "meta", Without(m.meta, k))
          [] g = "installation" ->
                With(m, "installation", Without(m.installation, k))
          [] g = "config" -> With(m, "config", Without(m.config, k))
          [] g = "file" ->
                With(m, "config",
                     [files |-> [m.config.files EXCEPT ![i] = Without(@, k)]])
          [] g = "env" ->
                With(m, "config",
                     [files |-> [m.config.files EXCEPT
                                   ![i].environment[x] = Without(@, k)]])
          [] g = "var" ->
                With(m, "variables",
                     [m.variables EXCEPT ![i] = Without(@, k)])

\* json.loads(f.read()), line 134
json_loads(t) ==
    IF t.json
    THEN [ok |-> TRUE, val |-> Drop(Manifest(t.uid, t.ver, t.n),
                                    t.drop, t.i, t.x)]
    ELSE [ok |-> FALSE, val |-> <<>>]

\* -------------------------------------------------------------- directories
AllNames == <<"a.json", "b.json", "c.json", "d.json">>

Names == {AllNames[i] : i \in 1..MaxFiles}

\* file.endswith(".json"), line 131
EndsWithJson(name) == name \in Range(AllNames) \cup {"u.json"}

EmptyFiles == [n \in {} |-> Garbage]

NoDir == [exists |-> FALSE, files |-> EmptyFiles]

Dir(files) == [exists |-> TRUE, files |-> files]

FileMaps(names, texts) == UNION {[S -> texts] : S \in SUBSET names}

\* extraction into a directory keeps the files the archive does not name
Merge(old, new) ==
    [n \in (DOMAIN old) \cup (DOMAIN new) |->
        IF n \in DOMAIN new THEN new[n] ELSE old[n]]

Restrict(f, S) == [n \in S |-> f[n]]

Uid_a == <<"a">>
Uid_b == <<"b">>
Uid_A == <<"A">>
Uid_c == <<"c">>
Uid_d == <<"d">>
Uid_z == <<"z">>

\* the documents a local file may hold, v being the supported API level
LocalTexts(v) ==
    {Text(Uid_a, v, NoDrop),
     Text(Uid_b, v, NoDrop),
     Text(Uid_A, v, NoDrop),
     Text(Uid_a, v + 1, NoDrop),
     Text(Uid_a, v, <<"top", "author">>),
     Text(Uid_a, v, <<"top", "meta">>),
     Text(Uid_a, v, <<"env", "value_format">>),
     Garbage}

\* the remote archive is one release of the default images: every manifest
\* of it is well formed, has its own uid and declares the release's API level;
\* a release holds the first k of the names
UidOfName(n) ==
    CASE n = "a.json" -> Uid_a [] n = "b.json" -> Uid_b
      [] n = "c.json" -> Uid_c [] OTHER -> Uid_d

Release(k, v) ==
    [n \in {AllNames[i] : i \in 1..k} |-> Text(UidOfName(n), v, NoDrop)]

Bundles(v) == {Release(k, w) : k \in 1..MaxFiles, w \in {v, v + 1}}

UserDirs(v) ==
    {NoDir,
     Dir([n \in {"u.json"} |-> Text(Uid_b, v, NoDrop)]),
     Dir([n \in {"u.json"} |-> Text(Uid_a, v, NoDrop)]),
     Dir([n \in {"notes.txt"} |-> Garbage])}

\* every document that lacks at most one key of the structural contract
Drops ==
    {NoDrop, <<"config", "files">>}
        \cup {<<"top", k>> : k \in Range(TopKeys)}
        \cup {<<"meta", k>> : k \in Range(MetaKeys)}
        \cup {<<"installation", k>> : k \in Range(InstallKeys)}

DeepUids == {Uid_a, Uid_A, <<"a", "B">>}

DeepTexts(v) ==
    {Text(u, w, d) : u \in DeepUids, w \in {v, v + 1}, d \in Drops}
        \cup UNION {
            {TextAt(u, w, n, <<"file", k>>, i, 1) :
                u \in DeepUids, w \in {v, v + 1}, k \in Range(FileKeys),
                i \in 1..n}
            \cup
            {TextAt(u, w, n, <<"var", k>>, i, 1) :
                u \in DeepUids, w \in {v, v + 1}, k \in Range(VarKeys),
                i \in 1..n}
            \cup
            {TextAt(u, w, n, <<"env", k>>, i, x) :
                u \in DeepUids, w \in {v, v + 1}, k \in Range(EnvKeys),
                i \in 1..n, x \in 1..n}
            \cup
            {TextAt(u, w, n, NoDrop, 1, 1) :
                u \in DeepUids, w \in {v, v + 1}}
            : n \in 1..MaxEntries}

LocalDirs(v) == {NoDir} \cup {Dir(f) : f \in FileMaps(Names, LocalTexts(v))}

QueryUids == {Uid_a, Uid_b, Uid_A, Uid_z}

\* ------------------------------------------------- wilfred.api.images.Images
\* how a call ended: the exception kind ("ok" when it returned) and message,
\* the argument, the returned value, and the download calls it made
Result(op, res, arg, ret, fetches) ==
    [op |-> op, kind |-> res.kind, msg |-> res.msg, arg |-> arg, ret |-> ret,
     fetches |-> fetches]

\* os.walk(self.image_dir): the files of one directory, then of the other,
\* each in the order the file system lists them
FilesIn(d) == {<<n, d.files[n]>> : n \in DOMAIN d.files}

Walks(dd, ud) ==
    LET D == Perms(FilesIn(dd))
        U == Perms(FilesIn(ud))
    IN  {d \o u : d \in D, u \in U} \cup {u \o d : d \in D, u \in U}

VersionCheckNoMismatch(image, file) ==
    IF "meta" \notin DOMAIN image
    THEN Raise("ReadError", <<file, "with err", "meta">>)
    ELSE IF "api_version" \notin DOMAIN image.meta
    THEN Raise("ReadError", <<file, "with err", "api_version">>)
    ELSE Ok

\* lines 138-151: the version check of one parsed document
VersionCheck(image, file) ==
    IF "meta" \notin DOMAIN image
    THEN Raise("ReadError", <<file, "with err", "meta">>)
    ELSE IF "api_version" \notin DOMAIN image.meta
    THEN Raise("ReadError", <<file, "with err", "api_version">>)
    ELSE IF image.meta.api_version # API_VERSION
    THEN Raise("ImageAPIMismatch",
               <<file, "API level", ToString(image.meta.api_version),
                 "Wilfred API level", ToString(API_VERSION)>>)
    ELSE Ok

\* one file with _verify run ahead of the version check
LoadFileVerifyFirst(file, text) ==
    LET j == json_loads(text)
    IN  IF ~j.ok
        THEN [res |-> Raise("ReadError", <<file, "failed with exception">>),
              val |-> j.val]
        ELSE LET vf == Verify(j.val, file)
             IN  IF vf.kind # "ok" THEN [res |-> vf, val |-> j.val]
                 ELSE [res |-> VersionCheck(j.val, file), val |-> j.val]

\* lines 132-153: one file, parsed, version checked and verified
LoadFile(file, text) ==
    LET j == json_loads(text)
    IN  IF ~j.ok
        THEN [res |-> Raise("ReadError", <<file, "failed with exception">>),
              val |-> j.val]
        ELSE LET vc == VersionCheck(j.val, file)
             IN  IF vc.kind # "ok" THEN [res |-> vc, val |-> j.val]
                 ELSE [res |-> Verify(j.val, file), val |-> j.val]

\* the outcome of LoadFile for every file under the image directory
Outcomes(dd, ud) ==
    [p \in FilesIn(dd) \cup FilesIn(ud) |-> LoadFile(p[1], p[2])]

\* the loop of read_images without the reset of self.images at line 127
RECURSIVE LoadKeepOld(_, _, _)
LoadKeepOld(walk, acc, out) ==
    IF walk = <<>> THEN [images |-> images \o acc, res |-> Ok]
    ELSE IF ~EndsWithJson(Head(walk)[1]) THEN LoadKeepOld(Tail(walk), acc, out)
    ELSE LET r == out[Head(walk)]
         IN  IF r.res.kind # "ok" THEN [images |-> images \o acc, res |-> r.res]
             ELSE LoadKeepOld(Tail(walk), Append(acc, r.val), out)

\* lines 129-156: the loop of read_images over the walk; acc is self.images,
\* out[p] the outcome of file p
RECURSIVE Load(_, _, _)
Load(walk, acc, out) ==
    IF walk = <<>> THEN [images |-> acc, res |-> Ok]
    ELSE IF ~EndsWithJson(Head(walk)[1]) THEN Load(Tail(walk), acc, out)
    ELSE LET r == out[Head(walk)]
         IN  IF r.res.kind # "ok" THEN [images |-> acc, res |-> r.res]
             ELSE Load(Tail(walk), Append(acc, r.val), out)

\* the presence test always answering yes
check_if_present_always == TRUE

\* check_if_present
check_if_present == defaultDir.exists

\* _check_if_read
check_if_read == Len(images) # 0

\* read_images
ReadImages ==
    /\ IF ~check_if_present
       THEN /\ last' = Result("read_images",
                              Raise("ImagesNotPresent",
                                    <<"Default images not present">>),
                              <<>>, <<>>, 0)
            /\ lastLoad' = "failed"
            /\ UNCHANGED <<images, loaded>>
       ELSE \E out \in {Outcomes(defaultDir, userDir)} :
              \E walk \in Walks(defaultDir, userDir) :
                \E r \in {Load(walk, <<>>, out)} :
                  /\ images' = r.images
                  /\ last' = Result("read_images", r.res, <<>>,
                                    IF r.res.kind = "ok" THEN <<TRUE>>
                                    ELSE <<>>, 0)
                  /\ lastLoad' = IF r.res.kind = "ok" THEN "ok" ELSE "failed"
                  /\ loaded' = (loaded \/ r.res.kind = "ok")
    /\ UNCHANGED <<disk, eager, shell>>

\* get_image
GetImage ==
    /\ \E uid \in QueryUids :
          IF ~check_if_read
          THEN last' = Result("get_image",
                              Raise("ImagesNotRead",
                                    <<"Read images before trying to get image">>),
                              uid, <<>>, 0)
          ELSE LET hits == SelectSeq(images, LAMBDA img : img.uid = uid)
               IN  last' = Result("get_image", Ok, uid,
                                  IF hits = <<>> THEN <<>> ELSE <<Head(hits)>>,
                                  0)
    /\ UNCHANGED <<disk, images, loaded, lastLoad, eager, shell>>

\* pretty: the rows handed to tabulate, built from a deep copy
PrettyDeleted == {"meta", "installation", "docker_image", "command",
                  "stop_command", "variables", "user", "config"}

PrettyRow(d) == [k \in (DOMAIN d) \ PrettyDeleted |-> d[k]]

Pretty ==
    /\ IF ~check_if_read
       THEN last' = Result("pretty",
                           Raise("ImagesNotRead",
                                 <<"Read images before trying to get images">>),
                           <<>>, <<>>, 0)
       ELSE last' = Result("pretty", Ok, <<>>,
                           [i \in DOMAIN images |-> PrettyRow(images[i])], 0)
    /\ UNCHANGED <<disk, images, loaded, lastLoad, eager, shell>>

\* download: the step at which it raises, "none" when it returns
FailPoints == {"none", "get", "extract", "move"}

DownloadError(fail) ==
    CASE fail = "none" -> Ok
      [] fail = "get" -> Raise("ConnectionError", <<"img.zip">>)
      [] fail = "extract" -> Raise("OSError", <<"temp_images">>)
      [] fail = "move" -> Raise("OSError", <<"default">>)

\* extractall writes the members in archive order: when it raises, the
\* members before some position are on disk
NameIndex(n) == CHOOSE i \in DOMAIN AllNames : AllNames[i] = n

Prefixes(remote) ==
    {{n \in DOMAIN remote : NameIndex(n) < k} : k \in 1..Len(AllNames)}
        \ {DOMAIN remote}

\* the disk after download() of the archive `remote`, of which the files
\* `part` are extracted when extractall raises
DownloadDefaultDir(fail, remote) ==
    IF fail = "none" THEN Dir(Merge(tempDir.files, remote)) ELSE NoDir

DownloadTempDir(fail, remote, part) ==
    CASE fail = "none" -> NoDir
      [] fail = "get" -> tempDir
      [] fail = "extract" -> Dir(Merge(tempDir.files, Restrict(remote, part)))
      [] fail = "move" -> Dir(Merge(tempDir.files, remote))

DownloadZipFile(fail) == fail # "none"

\* rmtree of the whole image directory instead of its `default` subtree
DownloadStepWipe(fail, remote, part) ==
    /\ defaultDir' = DownloadDefaultDir(fail, remote)
    /\ tempDir' = DownloadTempDir(fail, remote, part)
    /\ zipFile' = DownloadZipFile(fail)
    /\ userDir' = NoDir
    /\ last' = Result("download", DownloadError(fail), <<>>, <<>>, 1)
    /\ UNCHANGED <<images, loaded, lastLoad, eager, shell>>

DownloadStep(fail, remote, part) ==
    /\ defaultDir' = DownloadDefaultDir(fail, remote)
    /\ tempDir' = DownloadTempDir(fail, remote, part)
    /\ zipFile' = DownloadZipFile(fail)
    /\ last' = Result("download", DownloadError(fail), <<>>, <<>>, 1)
    /\ UNCHANGED <<userDir, images, loaded, lastLoad, eager, shell>>

Download ==
    \/ DownloadStep("get", EmptyFiles, {})
    \/ \E remote \in Bundles(API_VERSION) :
          \/ DownloadStep("none", remote, {})
          \/ DownloadStep("move", remote, {})
          \/ \E part \in Prefixes(remote) : DownloadStep("extract", remote, part)

\* ----------------------------------------------------- wilfred.images.Images
\* error(message, exit_code=1) of wilfred.message_handler ends the process
ErrorExit(msg) == [ret |-> "exit", why |-> "error", msg |-> msg]

EagerTopKeys == <<"meta", "uid", "name", "author", "docker_image", "command",
                  "user", "stop_command", "default_image", "variables",
                  "installation">>

\* _verify of wilfred/images.py with `config` and config.files required
EagerVerifyWithConfig(image, file) ==
    IF FirstMissing(image, TopKeys) # 0
    THEN ErrorExit(<<"image", file, "is missing key",
                     TopKeys[FirstMissing(image, TopKeys)]>>)
    ELSE IF FirstMissing(image.meta, MetaKeys) # 0
    THEN ErrorExit(<<"image", file, "is missing key",
                     MetaKeys[FirstMissing(image.meta, MetaKeys)]>>)
    ELSE IF FirstMissing(image.installation, InstallKeys) # 0
    THEN ErrorExit(<<"image", file, "is missing key",
                     InstallKeys[FirstMissing(image.installation, InstallKeys)]>>)
    ELSE IF "files" \notin DOMAIN image.config
    THEN ErrorExit(<<"image", file, "is missing key", "files">>)
    ELSE [ret |-> "true", why |-> "none", msg |-> <<>>]

\* _verify of wilfred/images.py: _exception exits at the first missing key
EagerVerify(image, file) ==
    IF FirstMissing(image, EagerTopKeys) # 0
    THEN ErrorExit(<<"image", file, "is missing key",
                     EagerTopKeys[FirstMissing(image, EagerTopKeys)]>>)
    ELSE IF FirstMissing(image.meta, MetaKeys) # 0
    THEN ErrorExit(<<"image", file, "is missing key",
                     MetaKeys[FirstMissing(image.meta, MetaKeys)]>>)
    ELSE IF FirstMissing(image.installation, InstallKeys) # 0
    THEN ErrorExit(<<"image", file, "is missing key",
                     InstallKeys[FirstMissing(image.installation, InstallKeys)]>>)
    ELSE [ret |-> "true", why |-> "none", msg |-> <<>>]

\* one file, a document without meta.api_version treated as a fatal
\* validation failure
EagerLoadFileMetaExit(file, text) ==
    LET j == json_loads(text)
    IN  IF ~j.ok
        THEN [res |-> ErrorExit(<<"unable to parse", file>>), val |-> j.val]
        ELSE IF \/ "meta" \notin DOMAIN j.val
                \/ "api_version" \notin DOMAIN j.val.meta
        THEN [res |-> ErrorExit(<<"image", file, "is missing key", "meta">>),
              val |-> j.val]
        ELSE IF j.val.meta.api_version # EAGER_API_VERSION
        THEN [res |-> [ret |-> "false", why |-> "mismatch",
                       msg |-> <<file, "image has API level",
                                 ToString(j.val.meta.api_version)>>],
              val |-> j.val]
        ELSE [res |-> EagerVerify(j.val, file), val |-> j.val]

\* lines 143-176 of _read_images: one file
EagerLoadFile(file, text) ==
    LET j == json_loads(text)
    IN  IF ~j.ok
        THEN [res |-> ErrorExit(<<"unable to parse", file>>), val |-> j.val]
        ELSE IF \/ "meta" \notin DOMAIN j.val
                \/ "api_version" \notin DOMAIN j.val.meta
        THEN [res |-> [ret |-> "false", why |-> "error",
                       msg |-> <<"could not parse config for image", file>>],
              val |-> j.val]
        ELSE IF j.val.meta.api_version # EAGER_API_VERSION
        THEN [res |-> [ret |-> "false", why |-> "mismatch",
                       msg |-> <<file, "image has API level",
                                 ToString(j.val.meta.api_version)>>],
              val |-> j.val]
        ELSE [res |-> EagerVerify(j.val, file), val |-> j.val]

EagerOutcomes(dd, ud) ==
    [p \in FilesIn(dd) \cup FilesIn(ud) |-> EagerLoadFile(p[1], p[2])]

\* _read_images: the loop over the walk; acc is self.images
RECURSIVE EagerLoad(_, _, _)
EagerLoad(walk, acc, out) ==
    IF walk = <<>>
    THEN [images |-> acc, res |-> [ret |-> "true", why |-> "none", msg |-> <<>>]]
    ELSE IF ~EndsWithJson(Head(walk)[1]) THEN EagerLoad(Tail(walk), acc, out)
    ELSE LET r == out[Head(walk)]
         IN  IF r.res.ret # "true" THEN [images |-> acc, res |-> r.res]
             ELSE EagerLoad(Tail(walk), Append(acc, r.val), out)

\* download_default called from __init__: the disk as in download, then the
\* constructor goes on at pc, or the exception leaves the constructor
EagerDownloadDefault(pc, refetch) ==
    \E fail \in FailPoints, remote \in Bundles(EAGER_API_VERSION) :
      \E part \in IF fail = "extract" THEN Prefixes(remote) ELSE {{}} :
        /\ defaultDir' = DownloadDefaultDir(fail, remote)
        /\ tempDir' = DownloadTempDir(fail, remote, part)
        /\ zipFile' = DownloadZipFile(fail)
        /\ ctor' = [ctor EXCEPT
                      !.pc = IF fail = "none" THEN pc ELSE "raised",
                      !.absent = IF ctor.pc = "new"
                                 THEN ~defaultDir.exists ELSE @,
                      !.dl = @ + 1,
                      !.refetch = @ + refetch,
                      !.msg = DownloadError(fail).msg]
        /\ UNCHANGED <<userDir, eimages, api, elast, shell>>

\* __init__, lines 29-36
EagerCheckDefault ==
    /\ ctor.pc = "new"
    /\ IF ~defaultDir.exists
       THEN EagerDownloadDefault("read1", 0)
       ELSE /\ ctor' = [ctor EXCEPT !.pc = "read1"]
            /\ UNCHANGED <<disk, eimages, api, elast, shell>>

\* __init__, line 38: the first _read_images()
PcAfterRead1(ret) ==
    CASE ret = "true" -> "done" [] ret = "false" -> "refresh"
      [] ret = "exit" -> "exited"

EagerRead1 ==
    /\ ctor.pc = "read1"
    /\ \E out \in {EagerOutcomes(defaultDir, userDir)} :
         \E walk \in Walks(defaultDir, userDir) :
           \E r \in {EagerLoad(walk, <<>>, out)} :
             /\ eimages' = r.images
             /\ ctor' = [ctor EXCEPT !.pc = PcAfterRead1(r.res.ret),
                                     !.r1 = r.res.ret,
                                     !.why1 = r.res.why,
                                     !.msg = r.res.msg]
    /\ UNCHANGED <<disk, api, elast, shell>>

\* __init__, line 39: the refresh after a load that returned False
EagerRefresh ==
    /\ ctor.pc = "refresh"
    /\ EagerDownloadDefault("read2", 1)

\* __init__, lines 40-44: the re-load, fatal when it returns False again
PcAfterRead2Retry(ret) ==
    CASE ret = "true" -> "done" [] ret = "false" -> "refresh"
      [] ret = "exit" -> "exited"

PcAfterRead2(ret) ==
    CASE ret = "true" -> "done" [] ret = "false" -> "fatal"
      [] ret = "exit" -> "exited"

EagerRead2 ==
    /\ ctor.pc = "read2"
    /\ \E out \in {EagerOutcomes(defaultDir, userDir)} :
         \E walk \in Walks(defaultDir, userDir) :
           \E r \in {EagerLoad(walk, <<>>, out)} :
             /\ eimages' = r.images
             /\ ctor' = [ctor EXCEPT
                           !.pc = PcAfterRead2(r.res.ret),
                           !.reread = @ + 1,
                           !.r2 = r.res.ret,
                           !.msg = IF r.res.ret = "false"
                                   THEN <<"Image still has incorrect API version after refresh">>
                                   ELSE r.res.msg]
    /\ UNCHANGED <<disk, api, elast, shell>>

\* get_image of the constructed object: _read_images() again, then the
\* first manifest with the uid or None; error(exit_code=1) ends the process
EagerGetImage ==
    /\ ctor.pc = "done"
    /\ \E uid \in QueryUids :
         \E out \in {EagerOutcomes(defaultDir, userDir)} :
           \E walk \in Walks(defaultDir, userDir) :
             \E r \in {EagerLoad(walk, <<>>, out)} :
               /\ eimages' = r.images
               /\ IF r.res.ret = "exit"
                  THEN /\ ctor' = [ctor EXCEPT !.pc = "exited",
                                               !.msg = r.res.msg]
                       /\ elast' = [op |-> "get_image", arg |-> uid,
                                    ret |-> <<>>]
                  ELSE /\ ctor' = ctor
                       /\ elast' =
                            LET hits == SelectSeq(r.images,
                                            LAMBDA img : img.uid = uid)
                            IN  [op |-> "get_image", arg |-> uid,
                                 ret |-> IF hits = <<>> THEN <<>>
                                         ELSE <<Head(hits)>>]
    /\ UNCHANGED <<disk, api, shell>>

\* pretty of the constructed object: the keys are deleted from the
\* dictionaries of self.images themselves (_images = self.images)
EagerPrettyDeleted == {"meta", "installation", "docker_image", "command",
                       "stop_command", "variables", "user"}

EagerPrettyRow(d) == [k \in (DOMAIN d) \ EagerPrettyDeleted |-> d[k]]

EagerPretty ==
    /\ ctor.pc = "done"
    /\ eimages' = [i \in DOMAIN eimages |-> EagerPrettyRow(eimages[i])]
    /\ elast' = [op |-> "pretty", arg |-> <<>>, ret |-> eimages']
    /\ UNCHANGED <<disk, api, ctor, shell>>

\* ---------------------------------------------------------- wilfred/wilfred.py
\* The commands of one process.  config, images and servers are built when
\* the module is imported; one command runs and the process ends.  Servers is
\* a collaborator: cli.calls is the sequence of the calls made on it.
Name_s == <<"s">>
Name_T == <<"T">>
Name_sp == <<"s", " ">>

ServerNames == {Name_s, Name_T, Name_sp}

Uid_sp == <<"a", " ">>

CliUids == {Uid_a, Uid_z, Uid_sp}

HasSpace(s) == " " \in Range(s)

NotConfigured == <<"Wilfred has not been configured">>

CliEnd(cmd, name, calls, exit, msg) ==
    [cmd |-> cmd, name |-> name, calls |-> calls, exit |-> exit, msg |-> msg]

\* how a handler goes on: the calls it made, how it ended, what it reported
Outcome(calls, exit, msg) == [calls |-> calls, exit |-> exit, msg |-> msg]

\* server_console, lines 234-246; found is what servers.get_by_name answers
ServerConsole(name, found) ==
    IF configuration = "none"
    THEN Outcome(<<>>, "exit1", ErrorExit(NotConfigured).msg)
    ELSE IF ~found
    THEN Outcome(<<<<"get_by_name", Lower(name)>>>>, "exit1",
                 ErrorExit(<<"Server does not exit">>).msg)
    ELSE Outcome(<<<<"get_by_name", Lower(name)>>,
                   <<"console", Lower(name)>>>>, "returned", <<>>)

\* what follows the work of create and start: ctx.invoke(server_console)
ThenConsole(calls, console, name, found) ==
    IF ~console THEN Outcome(calls, "returned", <<>>)
    ELSE LET c == ServerConsole(name, found)
         IN  Outcome(calls \o c.calls, c.exit, c.msg)

Console ==
    /\ cli.exit = "none"
    /\ \E name \in ServerNames, found \in BOOLEAN :
         \E c \in {ServerConsole(name, found)} :
            cli' = CliEnd("console", name, c.calls, c.exit, c.msg)
    /\ UNCHANGED <<disk, api, eager, configFile, configuration>>

\* sync, lines 141-153: spinner.fail reports and returns
SyncOutcome ==
    IF configuration = "none"
    THEN Outcome(<<<<"sync">>>>, "returned", NotConfigured)
    ELSE Outcome(<<<<"sync">>>>, "returned", <<>>)

SyncCmd ==
    /\ cli.exit = "none"
    /\ cli' = CliEnd("sync", <<>>, SyncOutcome.calls, SyncOutcome.exit,
                     SyncOutcome.msg)
    /\ UNCHANGED <<disk, api, eager, configFile, configuration>>

\* start (lines 156-184) and kill (lines 187-208) up to the console
SetStatus(name, status, found) ==
    IF configuration = "none"
    THEN Outcome(<<>>, "exit1", NotConfigured)
    ELSE IF ~found
    THEN Outcome(<<<<"get_by_name", Lower(name)>>>>, "exit1",
                 <<"Server does not exit">>)
    ELSE Outcome(<<<<"get_by_name", Lower(name)>>,
                   <<"set_status", Lower(name), status>>, <<"sync">>>>,
                 "returned", <<>>)

Start ==
    /\ cli.exit = "none"
    /\ \E name \in ServerNames, found \in BOOLEAN, console \in BOOLEAN,
          found2 \in BOOLEAN :
         \E s \in {SetStatus(name, "running", found)} :
           \E c \in {IF s.exit = "returned"
                     THEN ThenConsole(s.calls, console, name, found2)
                     ELSE s} :
              cli' = CliEnd("start", name, c.calls, c.exit, c.msg)
    /\ UNCHANGED <<disk, api, eager, configFile, configuration>>

Kill ==
    /\ cli.exit = "none"
    /\ \E name \in ServerNames, found \in BOOLEAN :
         \E s \in {SetStatus(name, "stopped", found)} :
            cli' = CliEnd("kill", name, s.calls, s.exit, s.msg)
    /\ UNCHANGED <<disk, api, eager, configFile, configuration>>

\* delete, lines 211-231
DeleteOutcome(name, confirm, found) ==
    IF ~confirm THEN Outcome(<<>>, "returned", <<>>)
    ELSE IF configuration = "none"
    THEN Outcome(<<>>, "exit1", NotConfigured)
    ELSE IF ~found
    THEN Outcome(<<<<"get_by_name", Lower(name)>>>>, "exit1",
                 <<"Server does not exit">>)
    ELSE Outcome(<<<<"get_by_name", Lower(name)>>,
                   <<"remove", Lower(name)>>>>, "returned", <<>>)

Delete ==
    /\ cli.exit = "none"
    /\ \E name \in ServerNames, confirm \in BOOLEAN, found \in BOOLEAN :
         \E d \in {DeleteOutcome(name, confirm, found)} :
            cli' = CliEnd("delete", name, d.calls, d.exit, d.msg)
    /\ UNCHANGED <<disk, api, eager, configFile, configuration>>

\* create, lines 102-138: images.pretty(), the prompts, images.get_image()
\* and servers.create(); name is what was typed, already lowered
Create ==
    /\ cli.exit = "none"
    /\ \E typed \in ServerNames, uid \in CliUids, console \in BOOLEAN,
          found \in BOOLEAN :
        \E name \in {Lower(typed)} :
         IF configuration = "none"
         THEN /\ cli' = CliEnd("create", <<>>, <<>>, "exit1",
                               ErrorExit(NotConfigured).msg)
              /\ UNCHANGED eager
         ELSE \E stripped \in {[i \in DOMAIN eimages |->
                                   EagerPrettyRow(eimages[i])]} :
           IF HasSpace(name) \/ HasSpace(uid)
           THEN /\ eimages' = stripped
                /\ elast' = [op |-> "pretty", arg |-> <<>>, ret |-> stripped]
                /\ cli' = CliEnd("create", name, <<>>, "exit1",
                                 ErrorExit(IF HasSpace(name)
                                           THEN <<"space not allowed in name">>
                                           ELSE <<"space not allowed in image_uuid">>).msg)
                /\ UNCHANGED ctor
           ELSE \E out \in {EagerOutcomes(defaultDir, userDir)} :
                 \E walk \in Walks(defaultDir, userDir) :
                  \E r \in {EagerLoad(walk, <<>>, out)} :
                   \E hits \in {SelectSeq(r.images,
                                          LAMBDA img : img.uid = uid)} :
                     /\ eimages' = r.images
                     /\ elast' = [op |-> "get_image", arg |-> uid,
                                  ret |-> IF r.res.ret = "exit" \/ hits = <<>>
                                          THEN <<>> ELSE <<Head(hits)>>]
                     /\ IF r.res.ret = "exit"
                        THEN /\ ctor' = [ctor EXCEPT !.pc = "exited",
                                                     !.msg = r.res.msg]
                             /\ cli' = CliEnd("create", name, <<>>, "exit1",
                                              r.res.msg)
                        ELSE /\ ctor' = ctor
                             /\ IF hits = <<>>
                                THEN cli' = CliEnd("create", name, <<>>, "exit1",
                                           ErrorExit(<<"image does not exist">>).msg)
                                ELSE \E c \in {ThenConsole(
                                                 <<<<"create", name, uid>>>>,
                                                 console, name, found)} :
                                       cli' = CliEnd("create", name, c.calls,
                                                     c.exit, c.msg)
    /\ UNCHANGED <<disk, api, configFile, configuration>>

\* servers, lines 88-92
ServersList ==
    /\ cli.exit = "none"
    /\ cli' = CliEnd("servers", <<>>, <<<<"pretty">>>>, "returned", <<>>)
    /\ UNCHANGED <<disk, api, eager, configFile, configuration>>

\* images, lines 95-99
ListImages ==
    /\ cli.exit = "none"
    /\ eimages' = [i \in DOMAIN eimages |-> EagerPrettyRow(eimages[i])]
    /\ elast' = [op |-> "pretty", arg |-> <<>>, ret |-> eimages']
    /\ cli' = CliEnd("images", <<>>, <<>>, "returned", <<>>)
    /\ UNCHANGED <<disk, api, ctor, configFile, configuration>>

\* setup, lines 73-85: click.confirm(abort=True) ends the process when the
\* answer is no; config.write leaves config.configuration as it is
Setup ==
    /\ cli.exit = "none"
    /\ \E confirm \in BOOLEAN :
         IF configuration = "set" /\ ~confirm
         THEN /\ cli' = CliEnd("setup", <<>>, <<>>, "exit1", <<"Aborted!">>)
              /\ UNCHANGED configFile
         ELSE /\ cli' = CliEnd("setup", <<>>, <<>>, "returned", <<>>)
              /\ configFile' = TRUE
    /\ UNCHANGED <<disk, api, eager, configuration>>

\* ------------------------------------------------------------ specification
InitLast == [op |-> "init", kind |-> "ok", msg |-> <<>>, arg |-> <<>>,
             ret |-> <<>>, fetches |-> 0]

InitCtor == [pc |-> "new", absent |-> FALSE, dl |-> 0, refetch |-> 0,
             reread |-> 0, r1 |-> "none", why1 |-> "none", r2 |-> "none",
             msg |-> <<>>]

InitELast == [op |-> "init", arg |-> <<>>, ret |-> <<>>]

\* no command has run
InitCli == [cmd |-> "none", name |-> <<>>, calls |-> <<>>, exit |-> "none",
            msg |-> <<>>]

InitObjects ==
    /\ tempDir = NoDir
    /\ zipFile = FALSE
    /\ images = <<>>
    /\ last = InitLast
    /\ loaded = FALSE
    /\ lastLoad = "none"
    /\ eimages = <<>>
    /\ ctor = InitCtor
    /\ elast = InitELast
    /\ configFile = FALSE
    /\ configuration = "none"
    /\ cli = InitCli

Init ==
    /\ defaultDir \in LocalDirs(API_VERSION)
    /\ userDir \in UserDirs(API_VERSION)
    /\ InitObjects

Next == Download \/ ReadImages \/ GetImage \/ Pretty

Spec == Init /\ [][Next]_vars

\* the construction of wilfred.images.Images over any local image directory
InitEager ==
    /\ defaultDir \in LocalDirs(EAGER_API_VERSION)
    /\ userDir \in UserDirs(EAGER_API_VERSION)
    /\ InitObjects

NextEager ==
    \/ EagerCheckDefault \/ EagerRead1 \/ EagerRefresh \/ EagerRead2
    \/ EagerGetImage \/ EagerPretty

SpecEager == InitEager /\ [][NextEager]_vars

\* the constructor is straight-line synchronous code: a step that can be
\* taken is taken
CtorStep == EagerCheckDefault \/ EagerRead1 \/ EagerRefresh \/ EagerRead2

SpecEagerFair == SpecEager /\ WF_vars(CtorStep)

\* the construction of wilfred.images.Images over one manifest file of any
\* shape in `default`
InitEagerVerify ==
    /\ defaultDir \in {Dir([n \in {"a.json"} |-> t]) :
                            t \in DeepTexts(EAGER_API_VERSION)}
    /\ userDir \in {NoDir,
                     Dir([n \in {"u.json"} |->
                            Text(Uid_b, EAGER_API_VERSION, NoDrop)])}
    /\ InitObjects

SpecEagerVerify == InitEagerVerify /\ [][NextEager]_vars

\* one manifest file of any shape in `default`, loaded and queried
InitVerify ==
    /\ defaultDir \in {Dir([n \in {"a.json"} |-> t]) :
                            t \in DeepTexts(API_VERSION)}
    /\ userDir \in {NoDir,
                     Dir([n \in {"u.json"} |->
                            Text(Uid_b, API_VERSION, NoDrop)])}
    /\ InitObjects

NextVerify == ReadImages \/ GetImage \/ Pretty

SpecVerify == InitVerify /\ [][NextVerify]_vars

\* one process of the command line: the module is imported (Config() read
\* config.json, Images() loaded a valid, current image directory) and one
\* command runs
InitProcess ==
    /\ defaultDir \in {Dir(Release(k, EAGER_API_VERSION)) : k \in 1..MaxFiles}
    /\ userDir \in {NoDir,
                     Dir([n \in {"u.json"} |->
                            Text(Uid_b, EAGER_API_VERSION, NoDrop)])}
    /\ tempDir = NoDir
    /\ zipFile = FALSE
    /\ images = <<>>
    /\ last = InitLast
    /\ loaded = FALSE
    /\ lastLoad = "none"
    /\ \E walk \in Walks(defaultDir, userDir) :
          eimages = EagerLoad(walk, <<>>,
                              EagerOutcomes(defaultDir, userDir)).images
    /\ ctor = [InitCtor EXCEPT !.pc = "done", !.r1 = "true"]
    /\ elast = InitELast
    /\ configFile \in BOOLEAN
    /\ configuration = (IF configFile THEN "set" ELSE "none")
    /\ cli = InitCli

NextCli ==
    \/ Setup \/ ServersList \/ ListImages \/ Create \/ SyncCmd
    \/ Start \/ Kill \/ Delete \/ Console

SpecCli == InitProcess /\ [][NextCli]_vars

\* ================================================================== claims
\* the .json files under the image directory, as <<name, text>>
ManifestFiles ==
    {p \in FilesIn(defaultDir) \cup FilesIn(userDir) : EndsWithJson(p[1])}

DocOf(p) == json_loads(p[2]).val

IsDoc(p) == json_loads(p[2]).ok

HasAll(rec, keys) == Range(keys) \subseteq DOMAIN rec

\* the structural contract, stated on the value
StructOk(m) ==
    /\ HasAll(m, TopKeys)
    /\ HasAll(m.meta, MetaKeys)
    /\ HasAll(m.installation, InstallKeys)
    /\ "files" \in DOMAIN m.config
    /\ \A i \in DOMAIN m.config.files :
          /\ HasAll(m.config.files[i], FileKeys)
          /\ \A x \in DOMAIN m.config.files[i].environment :
                HasAll(m.config.files[i].environment[x], EnvKeys)
    /\ \A i \in DOMAIN m.variables : HasAll(m.variables[i], VarKeys)

DeclaresOtherVersion(p) ==
    /\ IsDoc(p)
    /\ "meta" \in DOMAIN DocOf(p)
    /\ "api_version" \in DOMAIN DocOf(p).meta
    /\ DocOf(p).meta.api_version # API_VERSION

ValidCurrent(p) ==
    /\ IsDoc(p)
    /\ StructOk(DocOf(p))
    /\ ~HasUpper(DocOf(p).uid)
    /\ DocOf(p).meta.api_version = API_VERSION

LoadFailed ==
    /\ last.op = "read_images"
    /\ last.kind \in {"ReadError", "ParseError", "ImageAPIMismatch"}

\* C1: after a read_images that fails with ReadError, ParseError or
\* ImageAPIMismatch the registry holds no manifest of that load pass.
C1_AllOrNothing == LoadFailed => images = <<>>

\* C2: every manifest in self.images has every required top-level and nested
\* key, a uid equal to its lowercase form and meta.api_version = API_VERSION,
\* after any sequence of download, read_images, get_image and pretty.
C2_RegistryInvariant ==
    \A i \in DOMAIN images :
        /\ StructOk(images[i])
        /\ images[i].uid = Lower(images[i].uid)
        /\ ~HasUpper(images[i].uid)
        /\ images[i].meta.api_version = API_VERSION

\* a failed load left manifests in the registry while the disk holds a
\* manifest file that is not valid and current, and a query followed
C2_Witness ==
    /\ Len(images) >= 1
    /\ lastLoad = "failed"
    /\ last.op \in {"get_image", "pretty"}
    /\ \E p \in ManifestFiles : ~ValidCurrent(p)

\* C4: after a successful load get_image(x) returns a manifest whose uid is
\* x when one was loaded, and None otherwise, without raising.
C4_Lookup ==
    (last.op = "get_image" /\ lastLoad = "ok") =>
        /\ last.kind = "ok"
        /\ IF \E i \in DOMAIN images : images[i].uid = last.arg
           THEN /\ Len(last.ret) = 1
                /\ last.ret[1].uid = last.arg
                /\ last.ret[1] \in Range(images)
           ELSE last.ret = <<>>

\* C7: a registry produced by a successful load holds no two manifests with
\* the same uid.
C7_UniqueUids ==
    lastLoad = "ok" =>
        \A i, j \in DOMAIN images :
            images[i].uid = images[j].uid => i = j

\* C8: a query raises ImagesNotRead if and only if no read_images call has
\* completed successfully before it.
C8_NotReadIff ==
    last.op \in {"get_image", "pretty"} =>
        (last.kind = "ImagesNotRead" <=> ~loaded)

\* C9 as claimed: a load raises ImageAPIMismatch only after a refresh
\* (download) has been attempted for that load.
C9_OnlyAfterRefresh ==
    (last.op = "read_images" /\ last.kind = "ImageAPIMismatch") =>
        last.fetches >= 1

\* C9 as amended: read_images raises ImageAPIMismatch at the first detection
\* of a version mismatch: the load has attempted no refresh, the error names
\* a discovered file that declares another api_version, and a load whose
\* files are all valid and current except for such files raises it.
C9_AtFirstDetection ==
    last.op = "read_images" =>
        /\ last.kind = "ImageAPIMismatch" =>
              /\ last.fetches = 0
              /\ \E p \in ManifestFiles :
                    DeclaresOtherVersion(p) /\ p[1] \in Range(last.msg)
        /\ ( /\ defaultDir.exists
             /\ \E p \in ManifestFiles : DeclaresOtherVersion(p)
             /\ \A p \in ManifestFiles :
                    DeclaresOtherVersion(p) \/ ValidCurrent(p) )
              => last.kind = "ImageAPIMismatch"

\* a load ended in ImageAPIMismatch with manifests of the pass registered
C9_Witness ==
    /\ last.op = "read_images"
    /\ last.kind = "ImageAPIMismatch"
    /\ last.fetches = 0
    /\ \E p \in ManifestFiles : ValidCurrent(p)

\* C10: after download returns or fails, neither img.zip nor temp_images
\* exists.
C10_Cleanup == last.op = "download" => (~zipFile /\ ~tempDir.exists)

\* ---- claims about the construction of wilfred.images.Images (SpecEager)
CtorEnded == ctor.pc \in {"done", "fatal", "exited"}

CtorLeft == CtorEnded \/ ctor.pc = "raised"

C3_BoundedRetry ==
    /\ ctor.refetch <= 1
    /\ ctor.reread <= ctor.refetch
    /\ ctor.refetch = 1 => ctor.r1 = "false"
    /\ (ctor.why1 = "mismatch" /\ ctor.pc # "refresh") => ctor.refetch = 1
    /\ (ctor.why1 = "mismatch" /\ CtorEnded) => ctor.reread = 1
    /\ ctor.r2 = "false" <=> ctor.pc = "fatal"
    /\ ctor.pc = "fatal" =>
          /\ ctor.refetch = 1
          /\ ctor.reread = 1
          /\ ctor.msg = <<"Image still has incorrect API version after refresh">>

\* C3: a first load that finds a version mismatch triggers exactly one
\* download_default and, once that returned, exactly one re-load; a re-load
\* that returns False ends in the fatal error; never a second refetch, and
\* the constructor always terminates.
C3_OneShotSelfHeal == []C3_BoundedRetry /\ <>CtorLeft

\* the re-load after the one refresh still found a mismatch: fatal
C3_Witness ==
    /\ ctor.pc = "fatal"
    /\ ctor.why1 = "mismatch"
    /\ ctor.refetch = 1
    /\ ctor.reread = 1
    /\ \E p \in ManifestFiles :
          /\ IsDoc(p)
          /\ "meta" \in DOMAIN DocOf(p)
          /\ "api_version" \in DOMAIN DocOf(p).meta
          /\ DocOf(p).meta.api_version # EAGER_API_VERSION

\* ---- claims about one manifest file (SpecVerify): the file is a.json
TheFile == <<"a.json", defaultDir.files["a.json"]>>

\* C5: a manifest that is well formed and current but lacks one required
\* top-level key k fails to load with ParseError naming k and the file.
C5_MissingTopKey ==
    \A k \in Range(TopKeys) :
        ( /\ last.op = "read_images"
          /\ TheFile[2] = Text(Uid_a, API_VERSION, <<"top", k>>) )
            => /\ last.kind = "ParseError"
               /\ k \in Range(last.msg)
               /\ "a.json" \in Range(last.msg)

UpperUidFile ==
    /\ IsDoc(TheFile)
    /\ "uid" \in DOMAIN DocOf(TheFile)
    /\ HasUpper(DocOf(TheFile).uid)

\* C6: a manifest whose uid has an uppercase character is rejected by the
\* load and never inserted into the registry, whatever its other fields.
C6_UpperUidRejected ==
    /\ \A i \in DOMAIN images : ~HasUpper(images[i].uid)
    /\ (last.op = "read_images" /\ UpperUidFile) => last.kind # "ok"

\* an otherwise valid and current manifest is rejected for its uid
C6_Witness ==
    /\ last.op = "read_images"
    /\ UpperUidFile
    /\ last.kind = "ParseError"
    /\ "uid must be lowercase" \in Range(last.msg)

\* ---- claims about the steps of the api class (Spec)
\* the `default` subtrees a complete extraction of a published archive gives
CompleteDefaults == {Dir(b) : b \in Bundles(API_VERSION)}

\* C11: over a download, failed or not, `default` is either the complete
\* old content or the complete content of the fetched archive: never absent,
\* partial or mixed.
C11_AtomicReplace ==
    [][last'.op = "download" =>
          \/ defaultDir' = defaultDir
          \/ defaultDir' \in CompleteDefaults]_vars

\* C12: download changes only `default`, its archive and its scratch
\* directory: the user subtrees next to `default` and the registry are as
\* they were.
C12_DownloadFrame ==
    [][last'.op = "download" =>
          (userDir' = userDir /\ images' = images)]_vars

\* a download returned or failed next to a user subtree with a populated
\* registry
C12_Witness ==
    /\ last.op = "download"
    /\ userDir.exists
    /\ FilesIn(userDir) # {}
    /\ Len(images) >= 1

\* C13: read_images with `default` absent raises ImagesNotPresent, fetches
\* nothing, and leaves the disk and the registry exactly as they were.
C13_AbsentDefault ==
    [][(last'.op = "read_images" /\ ~defaultDir.exists) =>
          /\ last'.kind = "ImagesNotPresent"
          /\ last'.fetches = 0
          /\ images' = images
          /\ disk' = disk]_vars

\* ImagesNotPresent was raised over a populated registry and a user subtree
\* holding a manifest file
C13_Witness ==
    /\ last.op = "read_images"
    /\ last.kind = "ImagesNotPresent"
    /\ ~defaultDir.exists
    /\ Len(images) >= 1
    /\ \E p \in FilesIn(userDir) : EndsWithJson(p[1])

\* ---- more claims about one manifest file (SpecVerify)
\* C14: for every entry i of config.files and every mapping x of its
\* environment, an otherwise well-formed current manifest whose
\* environment[x] lacks config_variable, environment_variable or
\* value_format fails to load with ParseError, and the message names the
\* filename of entry i and the missing key.
C14_EnvKeyNamed ==
    \A n \in 1..MaxEntries : \A i, x \in 1..n : \A k \in Range(EnvKeys) :
        ( /\ last.op = "read_images"
          /\ TheFile[2] = TextAt(Uid_a, API_VERSION, n, <<"env", k>>, i, x) )
            => /\ last.kind = "ParseError"
               /\ FileNameOf(i) \in Range(last.msg)
               /\ k \in Range(last.msg)
               /\ "a.json" \in Range(last.msg)

\* the last mapping of the last entry lacks value_format
C14_Witness ==
    /\ last.op = "read_images"
    /\ TheFile[2] = TextAt(Uid_a, API_VERSION, MaxEntries,
                           <<"env", "value_format">>, MaxEntries, MaxEntries)
    /\ last.kind = "ParseError"
    /\ FileNameOf(MaxEntries) \in Range(last.msg)
    /\ "value_format" \in Range(last.msg)

\* the file is a document that breaks the structural contract (a required
\* key is missing or the uid is not lowercase) and declares an api_version
\* other than the supported one
InvalidAndOtherVersion ==
    /\ IsDoc(TheFile)
    /\ DeclaresOtherVersion(TheFile)
    /\ ~(StructOk(DocOf(TheFile)) /\ ~HasUpper(DocOf(TheFile).uid))

NestedDrops ==
    {<<"installation", k>> : k \in Range(InstallKeys)}
        \cup {<<"config", "files">>}
        \cup {<<"file", k>> : k \in Range(FileKeys)}
        \cup {<<"env", k>> : k \in Range(EnvKeys)}
        \cup {<<"var", k>> : k \in Range(VarKeys)}

ContractKeys ==
    Range(TopKeys) \cup Range(MetaKeys) \cup Range(InstallKeys)
        \cup Range(FileKeys) \cup Range(EnvKeys) \cup Range(VarKeys)
        \cup {"files"}

\* C16: when _verify rejects a manifest for a missing nested key, the
\* message names exactly that key; a config without `files` is reported as
\* missing `files`.
C16_NamesMissingKey ==
    \A d \in NestedDrops :
        ( /\ last.op = "read_images"
          /\ TheFile[2] = Text(Uid_a, API_VERSION, d) )
            => /\ last.kind = "ParseError"
               /\ Range(last.msg) \cap ContractKeys = {d[2]}

\* ---- claims about the constructed wilfred.images.Images (SpecEager)
\* C17: pretty() does not mutate the registry: after it returned, self.images
\* holds the manifests that were loaded from the .json files on disk, with
\* all their keys (nothing changes the disk once the constructor is done).
C17_PrettyKeepsRegistry ==
    elast.op = "pretty" =>
        \A i \in DOMAIN eimages :
            \E p \in ManifestFiles : IsDoc(p) /\ eimages[i] = DocOf(p)

\* ---- claims about the fetches of the constructor (SpecEager)
LacksVersion(p) ==
    /\ IsDoc(p)
    /\ \/ "meta" \notin DOMAIN DocOf(p)
       \/ "api_version" \notin DOMAIN DocOf(p).meta

EagerDeclaresOther(p) ==
    /\ IsDoc(p)
    /\ ~LacksVersion(p)
    /\ DocOf(p).meta.api_version # EAGER_API_VERSION

\* what the eager _read_images accepts
EagerValid(p) ==
    /\ IsDoc(p)
    /\ ~LacksVersion(p)
    /\ DocOf(p).meta.api_version = EAGER_API_VERSION
    /\ HasAll(DocOf(p), EagerTopKeys)
    /\ HasAll(DocOf(p).installation, InstallKeys)

\* the first load has run and the disk is still the one it read
AfterRead1 ==
    ctor.r1 # "none" /\ ctor.refetch = 0 /\ ctor.pc \in {"refresh", "exited"}

LacksConfigFiles(p) ==
    /\ IsDoc(p)
    /\ \/ "config" \notin DOMAIN DocOf(p)
       \/ "files" \notin DOMAIN DocOf(p).config

\* the first load of the constructor has run, no refresh has replaced what
\* it read and pretty() has not stripped the registry
FirstLoadRan == ctor.r1 # "none" /\ ctor.refetch = 0 /\ elast.op # "pretty"

DocsOfWalk(walk) ==
    LET js == SelectSeq(walk, LAMBDA p : EndsWithJson(p[1]))
    IN  [i \in DOMAIN js |-> DocOf(js[i])]

\* C20: after a read_images that returned, the registry is exactly the
\* documents of the .json files found under the image directory in that
\* pass, one per file in discovery order: nothing registered by an earlier
\* load is left in it.
C20_ReloadReplaces ==
    (last.op = "read_images" /\ last.kind = "ok") =>
        \E walk \in Walks(defaultDir, userDir) : images = DocsOfWalk(walk)

\* a load returned over several manifest files of both subtrees
C20_Witness ==
    /\ last.op = "read_images"
    /\ last.kind = "ok"
    /\ Len(images) = Cardinality(ManifestFiles)
    /\ \E p \in FilesIn(defaultDir) : EndsWithJson(p[1])
    /\ \E p \in FilesIn(userDir) : EndsWithJson(p[1])

\* the rank of a file by its path: images/default/<name> before
\* images/user/<name>, the names of `default` in alphabetical order
PathRank(p) ==
    IF p[1] \in Range(AllNames) THEN NameIndex(p[1]) ELSE Len(AllNames) + 1

\* the files under the image directory sorted by path
SortedWalk ==
    CHOOSE w \in Walks(defaultDir, userDir) :
        \A i, j \in DOMAIN w : i < j => PathRank(w[i]) < PathRank(w[j])

\* C21: after a successful load the registry is the sequence of the
\* discovered manifest files sorted by path, whatever the order in which
\* the walk enumerated them.
C21_SortedByPath ==
    (last.op = "read_images" /\ last.kind = "ok") =>
        images = DocsOfWalk(SortedWalk)

\* ---- claims about the commands of wilfred.py (SpecCli)
ServerCommands == {"create", "sync", "start", "kill", "delete", "console"}

ServersOperations == {"create", "sync", "set_status", "remove", "console"}

\* C22: a command that operates on servers, run while config.configuration
\* is absent, performs no Servers operation: it stops before it reaches the
\* collaborator.
C22_NoCallUnconfigured ==
    (cli.cmd \in ServerCommands /\ configuration = "none") =>
        \A i \in DOMAIN cli.calls : cli.calls[i][1] \notin ServersOperations

====
